---- MODULE Spec2Model ----
(***************************************************************************)
(* aws-terraform-executor: the Lambda handler App.Run of                   *)
(* lambda/app/app.go (the concurrent version, lines 83-116), the fan-out   *)
(* App.dispatch, the per-request pipeline App.execute and the subprocess   *)
(* supervision of App.runTf.                                               *)
(*                                                                         *)
(* One invocation of the Lambda is modelled at a time.  dispatch invokes   *)
(* the function asynchronously (InvocationTypeEvent): the payload waits in *)
(* `queue` and the invocation it triggers runs in an execution environment *)
(* of its own (its own App, its own /tmp), so an invocation and the one it *)
(* spawned share nothing but the payload.  The chain is therefore modelled *)
(* one invocation after the other.                                         *)
(***************************************************************************)
EXTENDS Integers, Sequences, FiniteSets, TLC

\* Largest batch handed to the first invocation.
MaxReq == 3
\* Largest value of runtime.NumCPU() (App.cpus); the smallest is 1.
MaxCpus == 2
\* Number of local jobs of the invocation ExecSpec follows step by step.
ExecJobs == 1
\* Largest number of module declarations in the entry file of ModSpec.
MaxMods == 2
\* Largest number of path atoms before the first ".git" of an address of
\* UrlSpec, and after it.
MaxRepo == 2
MaxSub == 3
\* Number of lines a subprocess writes to its two streams in IoSpec.
MaxLines == 1
\* the largest capacity json.Unmarshal leaves the decoded slice with
MaxCap == 4

VARIABLES
    queue,       \* payloads accepted by Lambda for asynchronous invocation
    depth,       \* number of invocations of the chain started so far
    orig,        \* the batch the first invocation received (history)
    startedCnt,  \* request ID -> number of execute goroutines started for it
    lens,        \* batch length of every invocation of the chain (history)
    failed,      \* a hand-off or a prepTf of the chain has failed (history)
    batch,       \* requests of the current invocation ([]*Request)
    cpus,        \* a.cpus of the current invocation
    runPc,       \* position of Run
    runRet,      \* what Run returned ("" while it runs)
    end,         \* Run's local `end`
    next,        \* index of the next iteration of Run's range loop
    wg,          \* Run's sync.WaitGroup counter
    payload,     \* what Run passed to dispatch: <<>> or <<the slice>>
    handoff,     \* how that call of dispatch ended ("" while there is none)
    tf,          \* a.tf, the path of the terraform binary
    log,         \* the distinct lines written through log.Printf
    job,         \* goroutine index -> state of that goroutine's execute
    cmd,         \* goroutine index -> the exec.Cmd of its init and apply
    files,       \* the paths that exist below /tmp
    touched,     \* <<goroutine, path>>: the paths a job removed or wrote (history)
    dirs,        \* goroutine index -> the directories its execute has set up
    pipe,        \* goroutine, stream -> what the subprocess wrote and nobody read
    scan,        \* goroutine, stream -> the bufio.Scanner of wrapOutput
    sent,        \* goroutine, stream -> number of lines the subprocess wrote
    emitted,     \* the lines written to os.Stdout and os.Stderr (history)
    envs,        \* the variables of one request: as JSON, decoded, as environment
    mods,        \* getModules of the job ModSpec follows, and its entry file
    addr,        \* a source address and what UrlSpec has computed from it
    sts          \* the secrets: who was issued which, where they were put

\* The variables of the file system, followed step by step by FsSpec only.
fsVars == <<files, touched, dirs>>

\* The variables of the output of a subprocess, followed by IoSpec only.
ioVars == <<pipe, scan, sent, emitted>>

auxVars == <<fsVars, ioVars, envs, mods, addr, sts>>

notFs == <<ioVars, envs, mods, addr, sts>>
notIo == <<fsVars, envs, mods, addr, sts>>
notEnv == <<fsVars, ioVars, mods, addr, sts>>
notMods == <<fsVars, ioVars, envs, addr, sts>>
notAddr == <<fsVars, ioVars, envs, mods, sts>>
notSts == <<fsVars, ioVars, envs, mods, addr>>

vars == <<queue, depth, orig, startedCnt, lens, failed, batch, cpus, runPc,
          runRet, end, next, wg, payload, handoff, tf, log, job,
          cmd, auxVars>>

chainVars == <<queue, depth, orig, startedCnt, lens, failed>>
runVars == <<batch, cpus, runPc, runRet, end, next, wg, payload, handoff, tf>>

Jobs == 1..MaxCpus
CpuCounts == 1..MaxCpus

(***************************************************************************)
(* Requests.  A Request is the Go struct; a JSON object carries the same   *)
(* data under the names of the struct's json tags.                         *)
(***************************************************************************)
Request(i) == [ID |-> i, Name |-> <<"acct", i>>]

Batches == {[i \in 1..n |-> Request(i)] : n \in 0..MaxReq}

ToJSON(r) == [id |-> r.ID, name |-> r.Name]

FromJSON(o) == [ID |-> o.id, Name |-> o.name]

Marshal(reqs) == [i \in 1..Len(reqs) |-> ToJSON(reqs[i])]

Unmarshal(b) == [i \in 1..Len(b) |-> FromJSON(b[i])]


(***************************************************************************)
(* The state of one execute goroutine and of the two commands it runs.     *)
(***************************************************************************)
NoReq == [ID |-> 0, Name |-> <<>>]

IdleJob == [pc |-> "idle", req |-> NoReq, err |-> "", steps |-> <<>>]

NoCmd == [proc |-> "none", code |-> 0, finished |-> FALSE, closed |-> FALSE,
          g |-> "none"]

NoCmds == [init |-> NoCmd, apply |-> NoCmd]

\* Faulty variant: the role is assumed before the backend file is written.
PipelineCredFirst ==
    <<"checkout", "creds", "assume", "backend", "plugindir", "moddir",
      "modules", "env", "gitconfig", "init", "initWait", "apply", "applyWait">>

\* The steps of execute, in the order of its statements.
Pipeline == <<"checkout", "creds", "backend", "assume", "plugindir", "moddir",
              "modules", "env", "gitconfig", "init", "initWait", "apply",
              "applyWait">>

\* The steps before the first subprocess; getEnv and the appends cannot fail.
PreSteps == {"checkout", "creds", "backend", "assume", "plugindir", "moddir",
             "modules", "env", "gitconfig"}

CanFail(step) == step # "env"

IndexOf(step) == CHOOSE i \in 1..Len(Pipeline) : Pipeline[i] = step

NextPc(step) ==
    IF IndexOf(step) = Len(Pipeline) THEN "ret" ELSE Pipeline[IndexOf(step) + 1]

(***************************************************************************)
(* App.Run                                                                 *)
(***************************************************************************)
\* Faulty variants of the two slice expressions and of the clamp of `end`.
OverflowFromCpu(reqs, c) == SubSeq(reqs, c, Len(reqs))

OverflowWhole(reqs, c) == reqs

EndAlwaysCpus(n, c) == c

\* Faulty variant: the whole batch is run locally.
EndWhole(n, c) == n

\* requests[a.cpus:]
Overflow(reqs, c) == SubSeq(reqs, c + 1, Len(reqs))

\* requests[:end]
Local(reqs, e) == SubSeq(reqs, 1, e)

\* end := len(requests); if end > a.cpus { end = a.cpus }
End(n, c) == IF n > c THEN c ELSE n

DispatchOutcomes == {"ok", "error marshaling requests", "failed to dispatch requests"}

PrepTfOutcomes == {"ok", "getTerraform failed", "failed to make terraform executable"}

\* dispatch: json.Marshal, then lambda Invoke with InvocationTypeEvent.  The
\* payload is queued only when both succeed.
Dispatch(q, reqs, out) == IF out = "ok" THEN Append(q, Marshal(reqs)) ELSE q

\* Faulty variant: the error of dispatch is dropped.
AfterDispatchSwallow(out) == [pc |-> "prep", ret |-> ""]

\* if err != nil { return err } after dispatch
AfterDispatch(out) ==
    IF out = "ok" THEN [pc |-> "prep", ret |-> ""]
    ELSE [pc |-> "returned", ret |-> out]

\* Lines 84-93: the split and the hand-off of the overflow.
RunSplit ==
    /\ runPc = "entry"
    /\ end' = End(Len(batch), cpus)
    /\ IF Len(batch) > cpus
       THEN \E out \in DispatchOutcomes :
              /\ payload' = <<Overflow(batch, cpus)>>
              /\ handoff' = out
              /\ queue' = Dispatch(queue, Overflow(batch, cpus), out)
              /\ runPc' = AfterDispatch(out).pc
              /\ runRet' = AfterDispatch(out).ret
              /\ failed' = (failed \/ out # "ok")
       ELSE /\ runPc' = "prep"
            /\ UNCHANGED <<payload, handoff, queue, runRet, failed>>
    /\ UNCHANGED <<auxVars, depth, orig, startedCnt, lens, batch, cpus, next, wg, tf,
                   log, job, cmd>>

\* if err != nil { return err } after prepTf
AfterPrepTf(out, n, e) ==
    IF out # "ok" THEN [pc |-> "returned", ret |-> out]
    ELSE IF e > n THEN [pc |-> "panic", ret |-> ""]
    ELSE IF e = 0 THEN [pc |-> "wait", ret |-> ""]
    ELSE [pc |-> "loop", ret |-> ""]

\* Lines 95-102: prepTf (getTerraform, os.Chmod), wg.Add(end) and the
\* evaluation of requests[:end], which panics past the end of the slice.
RunPrepTf ==
    /\ runPc = "prep"
    /\ \E out \in PrepTfOutcomes :
         /\ runPc' = AfterPrepTf(out, Len(batch), end).pc
         /\ runRet' = AfterPrepTf(out, Len(batch), end).ret
         /\ tf' = IF out = "getTerraform failed" THEN "" ELSE "/tmp/terraform"
         /\ wg' = IF out = "ok" THEN wg + end ELSE wg
         /\ failed' = (failed \/ out # "ok")
    /\ next' = 1
    /\ UNCHANGED <<auxVars, queue, depth, orig, startedCnt, lens, batch, cpus, end,
                   payload, handoff, log, job, cmd>>

\* Lines 102-111: one iteration of the range loop starts one goroutine.
RunSpawn ==
    /\ runPc = "loop"
    /\ next <= end
    /\ job' = [job EXCEPT ![next] =
                 [IdleJob EXCEPT !.pc = "checkout", !.req = Local(batch, end)[next]]]
    /\ startedCnt' = [startedCnt EXCEPT ![Local(batch, end)[next].ID] = @ + 1]
    /\ next' = next + 1
    /\ runPc' = IF next = end THEN "wait" ELSE "loop"
    /\ UNCHANGED <<auxVars, queue, depth, orig, lens, failed, batch, cpus, runRet, end,
                   wg, payload, handoff, tf, log, cmd>>

\* Lines 113-115: wg.Wait() returns when the counter is zero; return nil.
RunWait ==
    /\ runPc = "wait"
    /\ wg = 0
    /\ runPc' = "returned"
    /\ runRet' = "nil"
    /\ UNCHANGED <<auxVars, chainVars, batch, cpus, end, next, wg, payload, handoff, tf,
                   log, job, cmd>>

\* Lambda delivers a queued payload to a new invocation: lambda.Start decodes
\* it into []*Request and calls Run on a host of its own.
NextInvocation ==
    /\ runPc \in {"returned", "panic"}
    /\ queue # <<>>
    /\ batch' = Unmarshal(queue[1])
    /\ queue' = SubSeq(queue, 2, Len(queue))
    /\ \E c \in CpuCounts : cpus' = c
    /\ depth' = depth + 1
    /\ lens' = Append(lens, Len(queue[1]))
    /\ runPc' = "entry"
    /\ runRet' = ""
    /\ end' = 0
    /\ next' = 1
    /\ wg' = 0
    /\ payload' = <<>>
    /\ handoff' = ""
    /\ tf' = ""
    /\ log' = {}
    /\ job' = [j \in Jobs |-> IdleJob]
    /\ cmd' = [j \in Jobs |-> NoCmds]
    /\ UNCHANGED <<auxVars, orig, startedCnt, failed>>


(***************************************************************************)
(* App.execute: one goroutine per local request.                           *)
(***************************************************************************)
\* A step of execute completed: go on with the next statement.
Advance(r) == [r EXCEPT !.steps = Append(@, r.pc), !.pc = NextPc(r.pc)]

\* Faulty variant: a failing job cancels the jobs that are still running.
FailFast(jobs, j, e) ==
    [k \in DOMAIN jobs |->
       IF k = j THEN [jobs[k] EXCEPT !.err = e, !.pc = "ret"]
       ELSE IF jobs[k].pc \in {"idle", "ret", "done"} THEN jobs[k]
       ELSE [jobs[k] EXCEPT !.err = "context canceled", !.pc = "ret"]]

\* `return err` in execute of goroutine j: only that goroutine's execute ends.
FailJob(jobs, j, e) == [jobs EXCEPT ![j] = [@ EXCEPT !.err = e, !.pc = "ret"]]

\* Lines 155-206: checkout, Credentials.Get, createBackend, assumeRole, the
\* two MkdirAll, getModules, the environment, createGitConfig.  Each returns
\* its error to the caller of execute.
JobStep(j) ==
    /\ job[j].pc \in PreSteps
    /\ \E ok \in (IF CanFail(job[j].pc) THEN BOOLEAN ELSE {TRUE}) :
         job' = IF ok THEN [job EXCEPT ![j] = Advance(@)]
                ELSE FailJob(job, j, job[j].pc)
    /\ UNCHANGED <<auxVars, chainVars, runVars, log, cmd>>

\* The command a step of execute is about.
Which(pc) == IF pc \in {"init", "initWait", "initReap"} THEN "init" ELSE "apply"

\* runTf, lines 445-478: the pipes, cmd.Start and the goroutine that reads
\* the output and then calls cmd.Wait.
RunTf(j) ==
    /\ job[j].pc \in {"init", "apply"}
    /\ \E ok \in BOOLEAN :
         IF ok
         THEN /\ job' = [job EXCEPT ![j] = Advance(@)]
              /\ cmd' = [cmd EXCEPT ![j][job[j].pc] =
                           [NoCmd EXCEPT !.proc = "running", !.g = "read"]]
         ELSE /\ job' = FailJob(job, j, "failed to start process")
              /\ UNCHANGED cmd
    /\ UNCHANGED <<auxVars, chainVars, runVars, log>>

\* The subprocess ends with an exit status; its ends of the pipes close.
ProcExit(j, k) ==
    /\ cmd[j][k].proc = "running"
    /\ \E c \in {0, 1} :
         cmd' = [cmd EXCEPT ![j][k] = [@ EXCEPT !.proc = "exited", !.code = c]]
    /\ UNCHANGED <<auxVars, chainVars, runVars, log, job>>

\* What a read of Cmd.finished may return.  The two calls of Wait on one Cmd
\* are not synchronised, so a read may miss the other goroutine's write.
SeenFinished(c) == IF c.finished THEN {TRUE, FALSE} ELSE {FALSE}

\* Faulty variant: a Wait that finds the child gone reports success.
WaitResultLateNil(c) ==
    IF c.proc = "reaped" THEN ""
    ELSE IF c.code = 0 THEN "" ELSE "exit status 1"

\* Cmd.Wait after the check of finished: Process.Wait and closeDescriptors.
\* The exit status goes to the first caller; a second one finds no child.
WaitResult(c) ==
    IF c.proc = "reaped" THEN "wait: no child processes"
    ELSE IF c.code = 0 THEN "" ELSE "exit status 1"

Reaped(c) == [c EXCEPT !.proc = "reaped", !.closed = TRUE]

\* execute calls init.Wait() (line 212) or apply.Wait() (line 222): the
\* check of Cmd.finished.
ExecWaitEnter(j) ==
    /\ job[j].pc \in {"initWait", "applyWait"}
    /\ \E seen \in SeenFinished(cmd[j][Which(job[j].pc)]) :
         IF seen
         THEN /\ job' = FailJob(job, j, "exec: Wait was already called")
              /\ UNCHANGED cmd
         ELSE /\ job' = [job EXCEPT ![j].pc =
                           IF @ = "initWait" THEN "initReap" ELSE "applyReap"]
              /\ cmd' = [cmd EXCEPT ![j][Which(job[j].pc)].finished = TRUE]
    /\ UNCHANGED <<auxVars, chainVars, runVars, log>>

\* What execute does with the error its Wait returns (lines 212-222).
AfterWait(jobs, j, e) ==
    IF e # "" THEN FailJob(jobs, j, e)
    ELSE [jobs EXCEPT ![j] =
            [@ EXCEPT !.steps = Append(@, Which(jobs[j].pc) \o "Wait"),
                      !.pc = IF jobs[j].pc = "initReap" THEN "apply" ELSE "ret"]]

\* execute's Wait returns once the subprocess has exited.
ExecWaitReap(j) ==
    /\ job[j].pc \in {"initReap", "applyReap"}
    /\ cmd[j][Which(job[j].pc)].proc \in {"exited", "reaped"}
    /\ job' = AfterWait(job, j, WaitResult(cmd[j][Which(job[j].pc)]))
    /\ cmd' = [cmd EXCEPT ![j][Which(job[j].pc)] = Reaped(@)]
    /\ UNCHANGED <<auxVars, chainVars, runVars, log>>

\* The goroutine of runTf (lines 466-475): readOutput returns at the end of
\* both streams, then cmd.Wait() checks Cmd.finished; its errors are logged.
ReaderWaitEnter(j, k) ==
    /\ cmd[j][k].g = "read"
    /\ cmd[j][k].proc \in {"exited", "reaped"}
    /\ \E seen \in SeenFinished(cmd[j][k]) :
         IF seen
         THEN /\ cmd' = [cmd EXCEPT ![j][k].g = "end"]
              /\ log' = log \cup {<<"[ERROR]", "exec: Wait was already called">>}
         ELSE /\ cmd' = [cmd EXCEPT ![j][k] = [@ EXCEPT !.g = "reap", !.finished = TRUE]]
              /\ UNCHANGED log
    /\ UNCHANGED <<auxVars, chainVars, runVars, job>>

\* The goroutine's Wait returns.
ReaderWaitReap(j, k) ==
    /\ cmd[j][k].g = "reap"
    /\ cmd' = [cmd EXCEPT ![j][k] = [Reaped(@) EXCEPT !.g = "end"]]
    /\ log' = IF WaitResult(cmd[j][k]) = "" THEN log
              ELSE log \cup {<<"[ERROR]", WaitResult(cmd[j][k])>>}
    /\ UNCHANGED <<auxVars, chainVars, runVars, job>>

\* The steps from the exit of a subprocess to the return of execute's Wait
\* touch nothing but that command, so they can be taken together: the
\* subprocess exits with `code` and `first` is the goroutine whose Wait gets
\* to Process.Wait first.  ExecSpec takes the same steps one at a time.
Waiters == {"execute", "reader"}

LateWaitErrors == {"exec: Wait was already called", "wait: no child processes"}

Supervise(j) ==
    /\ job[j].pc \in {"initWait", "applyWait"}
    /\ cmd[j][Which(job[j].pc)].proc = "running"
    /\ \E code \in {0, 1}, first \in Waiters, late \in LateWaitErrors :
         LET k == Which(job[j].pc)
             c == [cmd[j][k] EXCEPT !.proc = "exited", !.code = code]
         IN /\ job' = AfterWait([job EXCEPT ![j].pc = k \o "Reap"], j,
                                IF first = "execute" THEN WaitResult(c) ELSE late)
            /\ cmd' = [cmd EXCEPT ![j][k] =
                         [Reaped(c) EXCEPT !.finished = TRUE, !.g = "end"]]
            /\ log' = log \cup
                   (IF first = "execute" THEN {<<"[ERROR]", late>>}
                    ELSE IF WaitResult(c) = "" THEN {}
                    ELSE {<<"[ERROR]", WaitResult(c)>>})
    /\ UNCHANGED <<auxVars, chainVars, runVars>>

\* Faulty variant: the failure of a job leaves no log line.
FailureLogNone(r) == {}

\* What the goroutine of Run logs when execute returned err (lines 106-108).
FailureLog(r) ==
    IF r.err # "" THEN {<<"failed to execute", r.req.Name, r.err>>} ELSE {}

\* Faulty variant: the goroutine returns on an error without wg.Done().
JobDoneLeak(j) ==
    /\ job[j].pc = "ret"
    /\ log' = log \cup FailureLog(job[j])
    /\ wg' = IF job[j].err = "" THEN wg - 1 ELSE wg
    /\ job' = [job EXCEPT ![j].pc = "done"]
    /\ UNCHANGED <<auxVars, chainVars, batch, cpus, runPc, runRet, end, next, payload,
                   handoff, tf, cmd>>

\* Lines 105-109 after execute returned: the log line, then wg.Done().
JobDone(j) ==
    /\ job[j].pc = "ret"
    /\ log' = log \cup FailureLog(job[j])
    /\ wg' = wg - 1
    /\ job' = [job EXCEPT ![j].pc = "done"]
    /\ UNCHANGED <<auxVars, chainVars, batch, cpus, runPc, runRet, end, next, payload,
                   handoff, tf, cmd>>

(***************************************************************************)
(* The working trees below /tmp.  A path is the sequence of its elements   *)
(* and a request name the sequence of the elements filepath.Join makes of  *)
(* it: <<>> is the empty name, <<"a", "b">> is "a/b".                      *)
(***************************************************************************)
\* The names FsSpec gives to the requests of a batch.
FsNames == {<<>>, <<"terraform">>, <<"a">>, <<"a", "b">>}

\* filepath.Join(p, q...): q follows p, an empty q adds nothing.
Join(p, q) == p \o q

\* Path p is root or lies below it.
Within(root, p) == Len(root) <= Len(p) /\ SubSeq(p, 1, Len(root)) = root

\* execute, line 155: path := filepath.Join("/tmp", req.Name)
WorkPath(name) == Join(<<"tmp">>, name)

\* execute, line 178: filepath.Join("/tmp", "terraform.d", "plugins")
pluginDir == Join(<<"tmp">>, <<"terraform.d", "plugins">>)

\* execute, line 184: filepath.Join(path, ".terraform", "modules")
modDir(path) == Join(path, <<".terraform", "modules">>)

\* getTerraform: the archive is unpacked into /tmp and the file of it whose
\* base name is "terraform" is the binary.
ToolPath == Join(<<"tmp">>, <<"terraform">>)

\* os.RemoveAll(p): p and everything below it is gone.
RemoveAll(fs, p) == {q \in fs : ~Within(p, q)}

\* What git.PlainClone and the checkout of the tag leave at path.
CloneFiles(path) == {path, Join(path, <<".git">>), Join(path, <<"main.tf">>)}

NoDirs == [plugin |-> <<>>, mod |-> <<>>, cache |-> <<>>, home |-> <<>>]

\* Job j wrote the paths ps.
Wrote(j, ps) == touched \cup {<<j, p>> : p \in ps}

\* prepTf as in RunPrepTf, with the binary getTerraform leaves in /tmp.
FsPrepTf ==
    /\ runPc = "prep"
    /\ \E out \in PrepTfOutcomes :
         /\ runPc' = AfterPrepTf(out, Len(batch), end).pc
         /\ runRet' = AfterPrepTf(out, Len(batch), end).ret
         /\ tf' = IF out = "getTerraform failed" THEN "" ELSE "/tmp/terraform"
         /\ files' = IF out = "getTerraform failed" THEN files
                     ELSE files \cup {ToolPath}
         /\ wg' = IF out = "ok" THEN wg + end ELSE wg
         /\ failed' = (failed \/ out # "ok")
    /\ next' = 1
    /\ UNCHANGED <<notFs, queue, depth, orig, startedCnt, lens, batch, cpus, end,
                   payload, handoff, log, job, cmd, touched, dirs>>

\* checkout, lines 231-234: os.RemoveAll(path); its error is only logged.
FsRemoveAll(j) ==
    /\ job[j].pc = "checkout"
    /\ \E ok \in BOOLEAN :
         files' = IF ok THEN RemoveAll(files, WorkPath(job[j].req.Name))
                  ELSE files
    /\ touched' = Wrote(j, files \ files')
    /\ job' = [job EXCEPT ![j].pc = "clone"]
    /\ UNCHANGED <<notFs, chainVars, runVars, log, cmd, dirs>>

\* checkout, lines 236-255: git.PlainClone into path and the checkout of
\* the tag.
FsClone(j) ==
    /\ job[j].pc = "clone"
    /\ \E ok \in BOOLEAN :
         IF ok
         THEN /\ files' = files \cup CloneFiles(WorkPath(job[j].req.Name))
              /\ touched' = Wrote(j, CloneFiles(WorkPath(job[j].req.Name)))
              /\ job' = [job EXCEPT ![j] = Advance([@ EXCEPT !.pc = "checkout"])]
         ELSE /\ job' = FailJob(job, j, "checkout")
              /\ UNCHANGED <<files, touched>>
    /\ UNCHANGED <<notFs, chainVars, runVars, log, cmd, dirs>>

\* The steps of execute that write nothing below /tmp, as in JobStep.
FsJobStep(j) ==
    /\ job[j].pc \in {"creds", "assume", "modules"}
    /\ JobStep(j)

\* A step of execute that writes the file or directory p.
FsWrite(j, step, p) ==
    /\ job[j].pc = step
    /\ \E ok \in BOOLEAN :
         IF ok
         THEN /\ files' = files \cup {p}
              /\ touched' = Wrote(j, {p})
              /\ job' = [job EXCEPT ![j] = Advance(@)]
         ELSE /\ job' = FailJob(job, j, step)
              /\ UNCHANGED <<files, touched>>
    /\ UNCHANGED <<notFs, chainVars, runVars, log, cmd>>

\* createBackend, lines 378-396: os.WriteFile of path/backend.tf.
FsBackend(j) ==
    /\ FsWrite(j, "backend", Join(WorkPath(job[j].req.Name), <<"backend.tf">>))
    /\ UNCHANGED dirs

\* execute, lines 178-182: os.MkdirAll(pluginDir).
FsMkdirPlugins(j) ==
    /\ FsWrite(j, "plugindir", pluginDir)
    /\ dirs' = [dirs EXCEPT ![j].plugin = pluginDir]

\* execute, lines 184-188: os.MkdirAll(modDir).
FsMkdirModules(j) ==
    /\ FsWrite(j, "moddir", modDir(WorkPath(job[j].req.Name)))
    /\ dirs' = [dirs EXCEPT ![j].mod = modDir(WorkPath(job[j].req.Name))]

\* execute, lines 195-201: TF_PLUGIN_CACHE_DIR and HOME of the environment
\* handed to the tool.
FsEnv(j) ==
    /\ job[j].pc = "env"
    /\ dirs' = [dirs EXCEPT ![j].cache = dirs[j].plugin,
                            ![j].home = WorkPath(job[j].req.Name)]
    /\ job' = [job EXCEPT ![j] = Advance(@)]
    /\ UNCHANGED <<notFs, chainVars, runVars, log, cmd, files, touched>>

\* createGitConfig, lines 203 and 367-376: os.WriteFile of path/.git/config.
FsGitConfig(j) ==
    /\ FsWrite(j, "gitconfig",
               Join(WorkPath(job[j].req.Name), <<".git", "config">>))
    /\ UNCHANGED dirs

(***************************************************************************)
(* The output of a subprocess: runTf's pipes, readOutput and wrapOutput.   *)
(* IoSpec follows the apply command of every job.  A line of a subprocess  *)
(* reaches a scanner in pieces, since a read returns what fits its buffer: *)
(* <<j, n, 1>> is the beginning of line n of job j and <<j, n, 2>> the     *)
(* rest of it with its newline.                                            *)
(***************************************************************************)
Streams == {"stdout", "stderr"}

\* Line n of the subprocess of job j as it lies in a pipe.
Line(j, n) == << <<j, n, 1>>, <<j, n, 2>> >>

\* bufio.NewScanner: buf is the line read so far, tok the token Scan has
\* returned and wrapOutput has not printed yet, st the state of the loop.
NoScan == [buf |-> <<>>, tok |-> <<>>, st |-> "scan"]

\* The subprocess writes its next line to one of its two streams.
ProcWrite(j, s) ==
    /\ cmd[j].apply.proc = "running"
    /\ sent[j]["stdout"] + sent[j]["stderr"] < MaxLines
    /\ sent' = [sent EXCEPT ![j][s] = @ + 1]
    /\ pipe' = [pipe EXCEPT ![j][s] = @ \o Line(j, sent[j][s] + 1)]
    /\ UNCHANGED <<notIo, chainVars, runVars, log, job, cmd, scan, emitted>>

\* What is left in the scanner's buffer when the stream ends or a read fails:
\* bufio.ScanLines returns it as the last token.
LastToken(buf) == IF buf = <<>> THEN <<>> ELSE <<buf>>

\* s.Scan() of wrapOutput (line 509).  A read of a pipe whose read end
\* cmd.Wait has closed fails; otherwise it returns a piece, or the end of
\* the stream once the subprocess is gone and the pipe is empty.
WrapOutputScan(j, s) ==
    /\ cmd[j].apply.g = "read"
    /\ scan[j][s].st = "scan"
    /\ scan[j][s].tok = <<>>
    /\ IF cmd[j].apply.closed
       THEN /\ scan' = [scan EXCEPT ![j][s] =
                          [buf |-> <<>>, tok |-> LastToken(@.buf), st |-> "err"]]
            /\ UNCHANGED pipe
       ELSE IF pipe[j][s] # <<>>
       THEN /\ pipe' = [pipe EXCEPT ![j][s] = Tail(@)]
            /\ scan' = [scan EXCEPT ![j][s] =
                          LET line == Append(scan[j][s].buf, Head(pipe[j][s]))
                          IN IF Head(pipe[j][s])[3] = 2
                             THEN [@ EXCEPT !.buf = <<>>, !.tok = <<line>>]
                             ELSE [@ EXCEPT !.buf = line]]
       ELSE /\ cmd[j].apply.proc \notin {"running", "blocked"}
            /\ scan' = [scan EXCEPT ![j][s] =
                          [buf |-> <<>>, tok |-> LastToken(@.buf), st |-> "eof"]]
            /\ UNCHANGED pipe
    /\ UNCHANGED <<notIo, chainVars, runVars, log, job, cmd, sent, emitted>>

\* execute's Wait on the apply command of job j has returned.
StepOver(j) == job[j].pc \in {"ret", "done"} /\ cmd[j].apply.proc # "none"

\* fmt.Fprintf(out, "[%s]: %s\n", name, s.Text()) of wrapOutput (line 510):
\* one Write of the whole line to os.Stdout or os.Stderr.
WrapOutputPrint(j, s) ==
    /\ scan[j][s].tok # <<>>
    /\ emitted' = emitted \cup
         {[name |-> job[j].req.Name, stream |-> s, text |-> scan[j][s].tok[1],
           late |-> StepOver(j)]}
    /\ scan' = [scan EXCEPT ![j][s].tok = <<>>]
    /\ UNCHANGED <<notIo, chainVars, runVars, log, job, cmd, pipe, sent>>

\* wrapOutput of stream s has called wg.Done() (line 517).
WrapOutputDone(j, s) == scan[j][s].st # "scan" /\ scan[j][s].tok = <<>>

\* readOutput, lines 496-501: the error of the first scanner that has one.
ReadOutputErr(j) ==
    IF scan[j]["stdout"].st \in {"err", "long"}
      THEN {<<"[ERROR]", "stdoutScanner failed">>}
    ELSE IF scan[j]["stderr"].st \in {"err", "long"}
      THEN {<<"[ERROR]", "stderrScanner failed">>}
    ELSE {}

\* cmd.Wait() of execute (line 222), the two steps of ExecSpec taken as one
\* as in Supervise: it returns once the subprocess is gone, with the exit
\* status if it is the first Wait to get to the child and with one of the
\* late errors otherwise, and it closes the read ends of both pipes.
ExecWait(j) ==
    /\ job[j].pc = "applyWait"
    /\ cmd[j].apply.proc \in {"exited", "reaped"}
    /\ \E late \in LateWaitErrors :
         job' = AfterWait([job EXCEPT ![j].pc = "applyReap"], j,
                          IF cmd[j].apply.proc = "reaped" THEN late
                          ELSE WaitResult(cmd[j].apply))
    /\ cmd' = [cmd EXCEPT ![j].apply = [Reaped(@) EXCEPT !.finished = TRUE]]
    /\ UNCHANGED <<notIo, ioVars, chainVars, runVars, log>>

\* The goroutine of runTf (lines 466-475): readOutput returns when both
\* wrapOutput are done, its error is logged, and cmd.Wait() is called, whose
\* error is logged too.
ReaderWait(j) ==
    /\ cmd[j].apply.g = "read"
    /\ \A s \in Streams : WrapOutputDone(j, s)
    /\ cmd[j].apply.proc \in {"exited", "reaped"}
    /\ \E late \in LateWaitErrors :
         log' = log \cup ReadOutputErr(j) \cup
                (IF cmd[j].apply.proc = "reaped" THEN {<<"[ERROR]", late>>}
                 ELSE IF WaitResult(cmd[j].apply) = "" THEN {}
                 ELSE {<<"[ERROR]", WaitResult(cmd[j].apply)>>})
    /\ cmd' = [cmd EXCEPT ![j].apply =
                 [Reaped(@) EXCEPT !.finished = TRUE, !.g = "end"]]
    /\ UNCHANGED <<notIo, ioVars, chainVars, runVars, job>>

\* s.Scan() of wrapOutput when the line in the buffer has reached
\* bufio.MaxScanTokenSize without a newline: Scan returns false with
\* ErrTooLong, the loop of wrapOutput (lines 509-514) ends and wg.Done()
\* follows; nothing reads the pipe any more.
WrapOutputTooLong(j, s) ==
    /\ cmd[j].apply.g = "read"
    /\ scan[j][s].st = "scan"
    /\ scan[j][s].tok = <<>>
    /\ scan[j][s].buf # <<>>
    /\ ~cmd[j].apply.closed
    /\ scan' = [scan EXCEPT ![j][s] = [buf |-> <<>>, tok |-> <<>>, st |-> "long"]]
    /\ UNCHANGED <<notIo, chainVars, runVars, log, job, cmd, pipe, sent, emitted>>

\* The subprocess goes on writing to a stream whose reader has left its
\* loop: the pipe fills and the write blocks, since the read end stays open
\* until a cmd.Wait has collected the exit status.
ProcBlock(j, s) ==
    /\ cmd[j].apply.proc = "running"
    /\ scan[j][s].st = "long"
    /\ ~cmd[j].apply.closed
    /\ cmd' = [cmd EXCEPT ![j].apply.proc = "blocked"]
    /\ UNCHANGED <<auxVars, chainVars, runVars, log, job>>

(***************************************************************************)
(* The variables of a request: the JSON object "variables" of the payload, *)
(* its decoding into Request.Variables (map[string]interface{}) and getEnv.*)
(* A value is a record: b is a boolean, int and frac the integer part and  *)
(* the digits after the point of a number, s the text of a string.         *)
(***************************************************************************)
Value(kind, b, int, frac, s) ==
    [kind |-> kind, b |-> b, int |-> int, frac |-> frac, s |-> s]

\* The JSON values a variable is given in EnvSpec: true, false, 3, 0, 1.5,
\* "x", an object, an array and null.
JSONValues ==
    {Value("bool", TRUE, 0, <<>>, ""), Value("bool", FALSE, 0, <<>>, ""),
     Value("number", FALSE, 3, <<>>, ""), Value("number", FALSE, 0, <<>>, ""),
     Value("number", FALSE, 1, <<5>>, ""), Value("string", FALSE, 0, <<>>, "x"),
     Value("object", FALSE, 0, <<>>, "{}"), Value("array", FALSE, 0, <<>>, "[]"),
     Value("null", FALSE, 0, <<>>, "null")}

VarKeys == {"enabled", "count"}

\* encoding/json decoding into interface{}: the Go type a JSON value gets.
\* Every JSON number becomes a float64.
GoType(kind) ==
    CASE kind = "bool" -> "bool"
      [] kind = "number" -> "float64"
      [] kind = "string" -> "string"
      [] kind = "object" -> "map[string]interface{}"
      [] kind = "array" -> "[]interface{}"
      [] kind = "null" -> "nil"

DecodeValue(v) == [v EXCEPT !.kind = GoType(v.kind)]

\* The digits fmt prints after the point for %f: six of them.
Pad(frac) == [i \in 1..6 |-> IF i <= Len(frac) THEN frac[i] ELSE 0]

\* The text after "key=": `point` says whether it has a decimal point.
Text(kind, b, int, point, frac, s) ==
    [kind |-> kind, b |-> b, int |-> int, point |-> point, frac |-> frac, s |-> s]

\* getEnv, lines 420-443: the type switch.  A type without a case adds no
\* entry.
getEnv(vs) ==
    {[key |-> k,
      text |-> CASE vs[k].kind = "bool" ->
                      Text("%t", vs[k].b, 0, FALSE, <<>>, "")
                 [] vs[k].kind = "string" ->
                      Text("%s", FALSE, 0, FALSE, <<>>, vs[k].s)
                 [] vs[k].kind = "int64" ->
                      Text("%d", FALSE, vs[k].int, FALSE, <<>>, "")
                 [] vs[k].kind = "float64" ->
                      Text("%f", FALSE, vs[k].int, TRUE, Pad(vs[k].frac), "")
                 [] vs[k].kind = "map[string]interface{}" ->
                      Text("%s", FALSE, 0, FALSE, <<>>, vs[k].s)] :
       k \in {x \in DOMAIN vs :
                vs[x].kind \in {"bool", "string", "int64", "float64",
                                "map[string]interface{}"}}}

\* lambda.Start decodes the payload: Request.Variables of the request.
EnvDecode ==
    /\ envs.pc = "json"
    /\ envs' = [envs EXCEPT !.pc = "decoded",
                            !.vars = [k \in DOMAIN envs.wire |->
                                        DecodeValue(envs.wire[k])]]
    /\ UNCHANGED <<notEnv, chainVars, runVars, log, job, cmd>>

\* execute, line 195: env := getEnv(req.Variables)
EnvGet ==
    /\ envs.pc = "decoded"
    /\ envs' = [envs EXCEPT !.pc = "env", !.env = getEnv(envs.vars)]
    /\ UNCHANGED <<notEnv, chainVars, runVars, log, job, cmd>>

(***************************************************************************)
(* Module source addresses.  An address is a sequence of atoms <<class,    *)
(* text>>: a scheme with its colon, the separator "/", a piece of text     *)
(* ("txt": letters, digits and dots, ".git" among them), a piece of text   *)
(* with a space in it as written ("raw") or percent-encoded ("esc"), the   *)
(* question mark, a key=value pair of the query (class = key) and "&".     *)
(***************************************************************************)
Sep == <<"sep", "/">>
DotGit == <<"txt", ".git">>
Qm == <<"qm", "?">>
Amp == <<"amp", "&">>

\* strings.Index: the place of the first a in s, 0 for none.
IndexIn(s, a) ==
    IF \E i \in 1..Len(s) : s[i] = a
    THEN CHOOSE i \in 1..Len(s) : s[i] = a /\ \A k \in 1..(i - 1) : s[k] # a
    ELSE 0

\* Percent-decoding and percent-encoding of a path.
Unescape(p) ==
    [i \in 1..Len(p) |-> IF p[i][1] = "esc" THEN <<"raw", p[i][2]>> ELSE p[i]]

Escape(p) ==
    [i \in 1..Len(p) |-> IF p[i][1] = "raw" THEN <<"esc", p[i][2]>> ELSE p[i]]

\* url.Parse: the query is what follows the first "?"; a scheme followed by
\* something other than "/" makes the rest opaque; "//" starts an authority
\* that ends at the next "/" (without a scheme "///" does not); the rest is
\* the path, stored decoded.  A host must not hold a space, written or
\* percent-encoded: then Parse fails.
URLParse(s) ==
    LET q == IndexIn(s, Qm)
        front == IF q = 0 THEN s ELSE SubSeq(s, 1, q - 1)
        hasScheme == front # <<>> /\ front[1][1] = "scheme"
        rest == IF hasScheme THEN Tail(front) ELSE front
        opaque == hasScheme /\ rest # <<>> /\ rest[1] # Sep
        authority == /\ Len(rest) >= 2 /\ rest[1] = Sep /\ rest[2] = Sep
                     /\ (hasScheme \/ Len(rest) = 2 \/ rest[3] # Sep)
        after == SubSeq(rest, 3, Len(rest))
        h == IndexIn(after, Sep)
        host == IF ~authority THEN <<>>
                ELSE IF h = 0 THEN after ELSE SubSeq(after, 1, h - 1)
        path == IF opaque THEN <<>>
                ELSE IF ~authority THEN rest
                ELSE IF h = 0 THEN <<>> ELSE SubSeq(after, h, Len(after))
    IN [ok |-> \A i \in 1..Len(host) : host[i][1] = "txt",
        scheme |-> IF hasScheme THEN front[1][2] ELSE "",
        opaque |-> IF opaque THEN rest ELSE <<>>,
        host |-> host,
        path |-> Unescape(path),
        query |-> IF q = 0 THEN <<>> ELSE SubSeq(s, q + 1, Len(s))]

\* URL.String: scheme, then the opaque part or "//", the host and the path
\* percent-encoded (a "/" is put between a host and a relative path), then
\* the query.
URLString(u) ==
    (IF u.scheme # "" THEN << <<"scheme", u.scheme>> >> ELSE <<>>)
    \o (IF u.opaque # <<>> THEN u.opaque
        ELSE (IF (u.scheme # "" \/ u.host # <<>>)
                 /\ (u.host # <<>> \/ u.path # <<>>)
              THEN <<Sep, Sep>> ELSE <<>>)
             \o u.host
             \o (IF u.path # <<>> /\ u.path[1] # Sep /\ u.host # <<>>
                 THEN <<Sep>> ELSE <<>>)
             \o Escape(u.path))
    \o (IF u.query # <<>> THEN <<Qm>> \o u.query ELSE <<>>)

\* u.Query()["ref"][0]: the value of the first pair whose key is ref.
FirstRef(query) ==
    IF IndexIn([i \in 1..Len(query) |-> query[i][1]], "ref") = 0 THEN ""
    ELSE query[IndexIn([i \in 1..Len(query) |-> query[i][1]], "ref")][2]

\* u.Path[:n] for the first ".git" at n, the whole path when there is none.
BeforeGit(path) ==
    IF IndexIn(path, DotGit) = 0 THEN path
    ELSE SubSeq(path, 1, IndexIn(path, DotGit) - 1)

\* Faulty variant: the query is left in the address.
normalizedSourceKeepsQuery(source) ==
    IF ~URLParse(source).ok
    THEN [err |-> "failed to parse source URL", url |-> <<>>, ref |-> ""]
    ELSE [err |-> "",
          url |-> URLString([URLParse(source) EXCEPT
                               !.scheme = "https", !.path = BeforeGit(@)]),
          ref |-> FirstRef(URLParse(source).query)]

\* normalizedSource, lines 294-316.
normalizedSource(source) ==
    IF ~URLParse(source).ok
    THEN [err |-> "failed to parse source URL", url |-> <<>>, ref |-> ""]
    ELSE [err |-> "",
          url |-> URLString([URLParse(source) EXCEPT
                               !.scheme = "https", !.path = BeforeGit(@),
                               !.query = <<>>]),
          ref |-> FirstRef(URLParse(source).query)]

\* strings.Split(p, "/") and filepath.Join of the pieces: the elements of p
\* between the separators, the empty ones dropped.
RECURSIVE Segments(_)
Segments(p) ==
    IF p = <<>> THEN <<>>
    ELSE IF p[1] = Sep THEN Segments(Tail(p))
    ELSE IF IndexIn(p, Sep) = 0 THEN <<p>>
    ELSE <<SubSeq(p, 1, IndexIn(p, Sep) - 1)>>
         \o Segments(SubSeq(p, IndexIn(p, Sep), Len(p)))

\* The path element made of the text s.
Elem(s) == << <<"txt", s>> >>

\* readModules, lines 338-362: the Module of one match of the regular
\* expression, match[1] = d.Key and match[2] = d.Source.
Module(d) ==
    LET path == URLParse(d.Source).path
        n == IndexIn(path, DotGit)
        dir == <<Elem(".terraform"), Elem("modules"), Elem(d.Key)>>
    IN [Key |-> d.Key, Source |-> d.Source,
        Dir |-> IF n = 0 THEN dir
                ELSE dir \o Segments(SubSeq(path, n + 1, Len(path))),
        RootDir |-> dir]

\* Faulty variant: an entry file without a module is not an error.
readModulesNoCheck(entry) ==
    IF \E i \in 1..Len(entry) : ~URLParse(entry[i].Source).ok
    THEN [err |-> "failed to parse URL for module source", modules |-> <<>>]
    ELSE [err |-> "", modules |-> [i \in 1..Len(entry) |-> Module(entry[i])]]

\* readModules, lines 325-365, of an entry file that can be read: `entry` is
\* the sequence of the matches of the regular expression in it.
readModules(entry) ==
    IF entry = <<>> THEN [err |-> "failed to find a module", modules |-> <<>>]
    ELSE IF \E i \in 1..Len(entry) : ~URLParse(entry[i].Source).ok
    THEN [err |-> "failed to parse URL for module source", modules |-> <<>>]
    ELSE [err |-> "", modules |-> [i \in 1..Len(entry) |-> Module(entry[i])]]

\* What json.Encoder writes of a Module: RootDir has the tag json:"-".
Manifest(modules) ==
    [i \in 1..Len(modules) |->
       [Key |-> modules[i].Key, Source |-> modules[i].Source,
        Dir |-> modules[i].Dir]]

\* Faulty variant: the loop goes on after a failed checkout.
AfterCheckoutGoesOn(e) == [pc |-> "loop", err |-> ""]

\* if err != nil { return err } in the loop of getModules (lines 271-278).
AfterCheckout(e) ==
    IF e = "" THEN [pc |-> "loop", err |-> ""] ELSE [pc |-> "done", err |-> e]

NoMods ==
    [entry |-> <<>>, pc |-> "read", modules |-> <<>>, i |-> 1, err |-> "",
     fetched |-> <<>>, manifest |-> <<>>]

\* getModules, lines 261-264: readModules, which fails when the file cannot
\* be read.
GetModulesRead(j) ==
    /\ job[j].pc = "modules"
    /\ mods.pc = "read"
    /\ \E readable \in BOOLEAN :
         LET r == IF readable THEN readModules(mods.entry)
                  ELSE [err |-> "failed to read file", modules |-> <<>>]
         IN /\ mods' = [mods EXCEPT !.pc = IF r.err = "" THEN "loop" ELSE "done",
                                    !.modules = r.modules, !.err = r.err]
            /\ job' = IF r.err = "" THEN job ELSE FailJob(job, j, r.err)
    /\ UNCHANGED <<notMods, chainVars, runVars, log, cmd>>

\* Faulty variant: the checkout goes into the Dir of the module.
CheckoutDestDir(md) == md.Dir

\* filepath.Join(modpath, m.Key) with modpath = .terraform/modules beside
\* the entry file (lines 266 and 274), relative to the working tree.
CheckoutDest(md) == <<Elem(".terraform"), Elem("modules"), Elem(md.Key)>>

\* getModules, lines 268-278: one iteration of the loop, normalizedSource
\* and the checkout into modpath/Key.
GetModulesFetch(j) ==
    /\ job[j].pc = "modules"
    /\ mods.pc = "loop"
    /\ mods.i <= Len(mods.modules)
    /\ LET md == mods.modules[mods.i]
           n == normalizedSource(md.Source)
       IN IF n.err # ""
          THEN /\ mods' = [mods EXCEPT !.pc = "done", !.err = n.err]
               /\ job' = FailJob(job, j, n.err)
          ELSE \E e \in {"", "failed clone repository"} :
                 /\ mods' = [mods EXCEPT
                      !.fetched = Append(@, [url |-> n.url, ref |-> n.ref,
                                             dest |-> CheckoutDest(md), err |-> e]),
                      !.i = @ + 1,
                      !.pc = AfterCheckout(e).pc,
                      !.err = AfterCheckout(e).err]
                 /\ job' = IF AfterCheckout(e).err = "" THEN job
                           ELSE FailJob(job, j, AfterCheckout(e).err)
    /\ UNCHANGED <<notMods, chainVars, runVars, log, cmd>>

\* getModules, lines 279-291: after the loop modules.json is created and
\* the modules are encoded into it.
GetModulesManifest(j) ==
    /\ job[j].pc = "modules"
    /\ mods.pc = "loop"
    /\ mods.i > Len(mods.modules)
    /\ \E e \in {"", "failed to create modules.json"} :
         /\ mods' = [mods EXCEPT
              !.pc = "done", !.err = e,
              !.manifest = IF e = "" THEN <<Manifest(mods.modules)>> ELSE <<>>]
         /\ job' = IF e = "" THEN [job EXCEPT ![j] = Advance(@)]
                   ELSE FailJob(job, j, e)
    /\ UNCHANGED <<notMods, chainVars, runVars, log, cmd>>

\* The other steps of execute before the tool, as in JobStep.
ModJobStep(j) ==
    /\ job[j].pc # "modules"
    /\ JobStep(j)

(***************************************************************************)
(* normalizedSource and readModules applied to one address (UrlSpec).      *)
(***************************************************************************)
NoResult == [err |-> "none", url |-> <<>>, ref |-> ""]
NoModule == [Key |-> "", Source |-> <<>>, Dir |-> <<>>, RootDir |-> <<>>]
NoAddr == [src |-> <<>>, norm |-> NoResult, again |-> NoResult, desc |-> NoModule]

\* normalizedSource of the address.
UrlNormalize ==
    /\ addr.norm = NoResult
    /\ addr' = [addr EXCEPT !.norm = normalizedSource(addr.src)]
    /\ UNCHANGED <<notAddr, chainVars, runVars, log, job, cmd>>

\* normalizedSource of the address normalizedSource has returned.
UrlAgain ==
    /\ addr.norm.err = ""
    /\ addr.again = NoResult
    /\ addr' = [addr EXCEPT !.again = normalizedSource(addr.norm.url)]
    /\ UNCHANGED <<notAddr, chainVars, runVars, log, job, cmd>>

\* readModules of an entry file whose one module "k" has the address.
UrlModule ==
    /\ addr.desc = NoModule
    /\ readModules(<<[Key |-> "k", Source |-> addr.src]>>).err = ""
    /\ addr' = [addr EXCEPT !.desc =
                  readModules(<<[Key |-> "k", Source |-> addr.src]>>).modules[1]]
    /\ UNCHANGED <<notAddr, chainVars, runVars, log, job, cmd>>

(***************************************************************************)
(* The sequential variant of Run (lines 590-611) with its execute (lines   *)
(* 632-657), followed by SeqSpec.                                            *)
(***************************************************************************)
\* The capacities the slice json.Unmarshal has decoded n requests into can
\* have: none for an empty array, otherwise what the growth of the slice
\* has left.
Caps(n) == IF n = 0 THEN {0} ELSE n..MaxCap

\* execute, lines 632-657: the errors of checkout, createBackend, cmd.Run.
SeqErrors ==
    {"failed clone repository", "failed to checkout branch",
     "failed to write backend.tf", "failed to run terraform"}

\* Lines 596-602: a batch longer than the CPU count is handed to dispatch,
\* whose result Run returns; otherwise requests[:a.cpus] is evaluated, which
\* panics when a.cpus is more than the capacity of the slice.
SeqRunEntry ==
    /\ runPc = "entry"
    /\ IF Len(batch) > cpus
       THEN \E out \in DispatchOutcomes :
              /\ payload' = <<Overflow(batch, cpus)>>
              /\ handoff' = out
              /\ queue' = Dispatch(queue, Overflow(batch, cpus), out)
              /\ runPc' = "returned"
              /\ runRet' = IF out = "ok" THEN "nil" ELSE out
              /\ failed' = (failed \/ out # "ok")
              /\ end' = 0
       ELSE \E cap \in Caps(Len(batch)) :
              /\ runPc' = IF cpus > cap THEN "panic" ELSE "loop"
              /\ end' = IF cpus > cap THEN 0 ELSE cpus
              /\ UNCHANGED <<payload, handoff, queue, runRet, failed>>
    /\ next' = 1
    /\ UNCHANGED <<auxVars, depth, orig, startedCnt, lens, batch, cpus, wg, tf,
                   log, job, cmd>>

\* Lines 602-607: one iteration of the loop over requests[:a.cpus].  An
\* element past the length of the batch is nil and execute panics on it;
\* the first error of execute is what Run returns.
SeqExecute ==
    /\ runPc = "loop"
    /\ next <= end
    /\ IF next > Len(batch)
       THEN /\ runPc' = "panic"
            /\ UNCHANGED <<job, startedCnt, next, runRet>>
       ELSE \E e \in {""} \cup SeqErrors :
              /\ job' = [job EXCEPT ![next] =
                           [IdleJob EXCEPT !.pc = "done", !.req = batch[next],
                                           !.err = e]]
              /\ startedCnt' = [startedCnt EXCEPT ![batch[next].ID] = @ + 1]
              /\ next' = next + 1
              /\ runPc' = IF e # "" \/ next = end THEN "returned" ELSE "loop"
              /\ runRet' = IF e # "" THEN e
                           ELSE IF next = end THEN "nil" ELSE runRet
    /\ UNCHANGED <<auxVars, queue, depth, orig, lens, failed, batch, cpus, end, wg,
                   payload, handoff, tf, log, cmd>>

(***************************************************************************)
(* The secrets of an invocation (CredSpec): <<"session">> is the           *)
(* credential of the role of the function, <<"token">> is a.token and      *)
(* <<"sts", n>> is the n-th credential AssumeRole has issued.              *)
(***************************************************************************)
NoSts ==
    [issued |-> <<>>,
     held |-> [j \in Jobs |-> <<>>],
     env |-> [j \in Jobs |-> {}],
     procEnv |-> [j \in Jobs |-> [init |-> {}, apply |-> {}]],
     content |-> {}]

\* Faulty variant: the credential is kept in a variable the jobs share.
getCredEnvShared(s, j) == {<<"sts", Len(s.issued)>>}

\* getCredEnv(cred), lines 198 and 412-418: the secrets in the entries made
\* of the credential execute of job j holds in its local cred.
getCredEnv(s, j) == {<<"sts", s.held[j][1]>>}

\* What a step of execute that has succeeded does with the secrets:
\* createBackend writes those of the session into backend.tf, assumeRole
\* returns a new credential, the environment gets the entries of
\* getCredEnv, createGitConfig writes the token into .git/config.
AfterStep(s, j, step, path) ==
    IF step = "backend"
      THEN [s EXCEPT !.content = @ \cup
              {<<Join(path, <<"backend.tf">>), <<"session">>>>}]
    ELSE IF step = "assume"
      THEN [s EXCEPT !.issued = Append(@, j), !.held[j] = <<Len(s.issued) + 1>>]
    ELSE IF step = "env"
      THEN [s EXCEPT !.env[j] = getCredEnv(s, j)]
    ELSE IF step = "gitconfig"
      THEN [s EXCEPT !.content = @ \cup
              {<<Join(path, <<".git", "config">>), <<"token">>>>}]
    ELSE s

\* The steps of execute before the tool, as in JobStep.
CredStep(j) ==
    /\ job[j].pc \in PreSteps
    /\ \E ok \in (IF CanFail(job[j].pc) THEN BOOLEAN ELSE {TRUE}) :
         /\ job' = IF ok THEN [job EXCEPT ![j] = Advance(@)]
                   ELSE FailJob(job, j, job[j].pc)
         /\ sts' = IF ok THEN AfterStep(sts, j, job[j].pc,
                                        WorkPath(job[j].req.Name))
                   ELSE sts
    /\ UNCHANGED <<notSts, chainVars, runVars, log, cmd>>

\* runTf as in RunTf, with cmd.Env = env (line 447).
CredRunTf(j) ==
    /\ job[j].pc \in {"init", "apply"}
    /\ \E ok \in BOOLEAN :
         IF ok
         THEN /\ job' = [job EXCEPT ![j] = Advance(@)]
              /\ cmd' = [cmd EXCEPT ![j][job[j].pc] =
                           [NoCmd EXCEPT !.proc = "running", !.g = "read"]]
              /\ sts' = [sts EXCEPT !.procEnv[j][job[j].pc] = sts.env[j]]
         ELSE /\ job' = FailJob(job, j, "failed to start process")
              /\ UNCHANGED <<cmd, sts>>
    /\ UNCHANGED <<notSts, chainVars, runVars, log>>

(***************************************************************************)
(* The specifications.  Spec is the chain of invocations with every local  *)
(* job; ExecSpec is one invocation of ExecJobs requests with each step of    *)
(* the subprocess supervision on its own.                                  *)
(***************************************************************************)
\* Nothing exists below /tmp when an execution environment starts.
FsFresh ==
    /\ files = {}
    /\ touched = {}
    /\ dirs = [j \in Jobs |-> NoDirs]

\* No pipe and no scanner exists before runTf.
IoFresh ==
    /\ pipe = [j \in Jobs |-> [s \in Streams |-> <<>>]]
    /\ scan = [j \in Jobs |-> [s \in Streams |-> NoScan]]
    /\ sent = [j \in Jobs |-> [s \in Streams |-> 0]]
    /\ emitted = {}

\* A request without variables.
NoEnv == [pc |-> "json", wire |-> <<>>, vars |-> <<>>, env |-> {}]

AuxFresh ==
    /\ FsFresh
    /\ IoFresh
    /\ envs = NoEnv
    /\ mods = NoMods
    /\ addr = NoAddr
    /\ sts = NoSts

\* The state of an invocation that is about to call Run.
RunFresh ==
    /\ batch = orig
    /\ queue = <<>>
    /\ depth = 1
    /\ startedCnt = [i \in 1..MaxReq |-> 0]
    /\ lens = <<Len(orig)>>
    /\ failed = FALSE
    /\ runPc = "entry"
    /\ runRet = ""
    /\ end = 0
    /\ next = 1
    /\ wg = 0
    /\ payload = <<>>
    /\ handoff = ""
    /\ tf = ""
    /\ log = {}
    /\ job = [j \in Jobs |-> IdleJob]
    /\ cmd = [j \in Jobs |-> NoCmds]

Fresh == RunFresh /\ AuxFresh

Init ==
    /\ orig \in Batches
    /\ cpus \in CpuCounts
    /\ Fresh

Next ==
    \/ RunSplit
    \/ RunPrepTf
    \/ RunSpawn
    \/ RunWait
    \/ NextInvocation
    \/ \E j \in Jobs : JobStep(j)
    \/ \E j \in Jobs : RunTf(j)
    \/ \E j \in Jobs : Supervise(j)
    \/ \E j \in Jobs : JobDone(j)

Spec == Init /\ [][Next]_vars

ExecInit ==
    /\ Init
    /\ Len(orig) = ExecJobs
    /\ cpus = ExecJobs

ExecNext ==
    \/ RunSplit
    \/ RunPrepTf
    \/ RunSpawn
    \/ RunWait
    \/ \E j \in 1..ExecJobs : JobStep(j)
    \/ \E j \in 1..ExecJobs : RunTf(j)
    \/ \E j \in 1..ExecJobs, k \in {"init", "apply"} : ProcExit(j, k)
    \/ \E j \in 1..ExecJobs : ExecWaitEnter(j)
    \/ \E j \in 1..ExecJobs : ExecWaitReap(j)
    \/ \E j \in 1..ExecJobs, k \in {"init", "apply"} : ReaderWaitEnter(j, k)
    \/ \E j \in 1..ExecJobs, k \in {"init", "apply"} : ReaderWaitReap(j, k)
    \/ \E j \in 1..ExecJobs : JobDone(j)

ExecSpec == ExecInit /\ [][ExecNext]_vars

\* FsSpec: one invocation whose requests have pairwise distinct names, each
\* execute followed from its checkout to the start of the tool with every
\* path it removes or writes.
FsBatches ==
    {[i \in Jobs |-> [ID |-> i, Name |-> f[i]]] :
       f \in {g \in [Jobs -> FsNames] : \A i, k \in Jobs : i # k => g[i] # g[k]}}

FsInit ==
    /\ orig \in FsBatches
    /\ cpus = MaxCpus
    /\ Fresh

FsNext ==
    \/ RunSplit
    \/ FsPrepTf
    \/ RunSpawn
    \/ \E j \in Jobs : FsRemoveAll(j)
    \/ \E j \in Jobs : FsClone(j)
    \/ \E j \in Jobs : FsJobStep(j)
    \/ \E j \in Jobs : FsBackend(j)
    \/ \E j \in Jobs : FsMkdirPlugins(j)
    \/ \E j \in Jobs : FsMkdirModules(j)
    \/ \E j \in Jobs : FsEnv(j)
    \/ \E j \in Jobs : FsGitConfig(j)
    \/ \E j \in Jobs : JobDone(j)

FsSpec == FsInit /\ [][FsNext]_vars

\* IoSpec: every job of a full batch has come through init and is about to
\* start apply, and Run waits for the jobs; from there on each write of a
\* subprocess, each read and each printed line is a step.
AtApply(j) ==
    [pc |-> "apply", req |-> Request(j), err |-> "",
     steps |-> SubSeq(Pipeline, 1, IndexOf("apply") - 1)]

InitDone ==
    [proc |-> "reaped", code |-> 0, finished |-> TRUE, closed |-> TRUE,
     g |-> "end"]

IoInit ==
    /\ orig = [i \in Jobs |-> Request(i)]
    /\ batch = orig
    /\ cpus = MaxCpus
    /\ queue = <<>>
    /\ depth = 1
    /\ startedCnt = [i \in 1..MaxReq |-> IF i \in Jobs THEN 1 ELSE 0]
    /\ lens = <<Len(orig)>>
    /\ failed = FALSE
    /\ runPc = "wait"
    /\ runRet = ""
    /\ end = MaxCpus
    /\ next = MaxCpus + 1
    /\ wg = MaxCpus
    /\ payload = <<>>
    /\ handoff = ""
    /\ tf = "/tmp/terraform"
    /\ log = {<<"[ERROR]", "exec: Wait was already called">>}
    /\ job = [j \in Jobs |-> AtApply(j)]
    /\ cmd = [j \in Jobs |-> [init |-> InitDone, apply |-> NoCmd]]
    /\ AuxFresh

IoNext ==
    \/ RunWait
    \/ \E j \in Jobs : RunTf(j)
    \/ \E j \in Jobs, s \in Streams : ProcWrite(j, s)
    \/ \E j \in Jobs : ProcExit(j, "apply")
    \/ \E j \in Jobs, s \in Streams : WrapOutputScan(j, s)
    \/ \E j \in Jobs, s \in Streams : WrapOutputPrint(j, s)
    \/ \E j \in Jobs : ReaderWait(j)
    \/ \E j \in Jobs : ExecWait(j)
    \/ \E j \in Jobs : JobDone(j)

IoSpec == IoInit /\ [][IoNext]_vars

\* StallSpec: the apply command of one job as in IoSpec, with a line that
\* may be longer than the scanner's buffer.  The goroutines are scheduled
\* and a subprocess that is not blocked exits: every step but the writes of
\* the subprocess and the over-long line is taken when it stays possible.
StallInit ==
    /\ orig = <<Request(1)>>
    /\ batch = orig
    /\ cpus = MaxCpus
    /\ queue = <<>>
    /\ depth = 1
    /\ startedCnt = [i \in 1..MaxReq |-> IF i = 1 THEN 1 ELSE 0]
    /\ lens = <<Len(orig)>>
    /\ failed = FALSE
    /\ runPc = "wait"
    /\ runRet = ""
    /\ end = 1
    /\ next = 2
    /\ wg = 1
    /\ payload = <<>>
    /\ handoff = ""
    /\ tf = "/tmp/terraform"
    /\ log \in SUBSET {<<"[ERROR]", "exec: Wait was already called">>}
    /\ job = [j \in Jobs |-> IF j = 1 THEN AtApply(j) ELSE IdleJob]
    /\ cmd = [j \in Jobs |-> IF j = 1 THEN [init |-> InitDone, apply |-> NoCmd]
                              ELSE NoCmds]
    /\ AuxFresh

Scheduled ==
    \/ RunWait
    \/ \E j \in Jobs : RunTf(j)
    \/ \E j \in Jobs : ProcExit(j, "apply")
    \/ \E j \in Jobs, s \in Streams : WrapOutputScan(j, s)
    \/ \E j \in Jobs, s \in Streams : WrapOutputPrint(j, s)
    \/ \E j \in Jobs : ReaderWait(j)
    \/ \E j \in Jobs : ExecWait(j)
    \/ \E j \in Jobs : JobDone(j)

StallNext ==
    \/ Scheduled
    \/ \E j \in Jobs, s \in Streams : ProcWrite(j, s)
    \/ \E j \in Jobs, s \in Streams : WrapOutputTooLong(j, s)
    \/ \E j \in Jobs, s \in Streams : ProcBlock(j, s)

StallSpec == StallInit /\ [][StallNext]_vars /\ WF_vars(Scheduled)

\* EnvSpec: the variables of one request from the payload to the environment
\* of the tool.
EnvInit ==
    /\ orig = <<>>
    /\ cpus = MaxCpus
    /\ RunFresh
    /\ FsFresh
    /\ IoFresh
    /\ sts = NoSts
    /\ mods = NoMods
    /\ addr = NoAddr
    /\ \E ks \in SUBSET VarKeys :
         \E w \in [ks -> JSONValues] : envs = [NoEnv EXCEPT !.wire = w]

EnvNext ==
    \/ EnvDecode
    \/ EnvGet

EnvSpec == EnvInit /\ [][EnvNext]_vars

\* The sequences over S of length n at most.
Seqs(S, n) == UNION {[1..k -> S] : k \in 0..n}

Http == <<"scheme", "http">>
Https == <<"scheme", "https">>
Host == <<"txt", "example.com">>

\* ModSpec: one invocation with one request, whose getModules is followed
\* step by step.  The sources of the entry file are
\* https://example.com/org, https://example.com/org.git//m?ref=v2 and
\* "//my mod", which url.Parse rejects.
ModSources ==
    {<<Https, Sep, Sep, Host, Sep, <<"txt", "org">>>>,
     <<Https, Sep, Sep, Host, Sep, <<"txt", "org">>, DotGit, Sep, Sep,
       <<"txt", "m">>, Qm, <<"ref", "v2">>>>,
     <<Sep, Sep, <<"raw", "my mod">>>>}

Entries == Seqs([Key : {"a", "b"}, Source : ModSources], MaxMods)

ModInit ==
    /\ orig \in Batches
    /\ Len(orig) = 1
    /\ cpus = MaxCpus
    /\ RunFresh
    /\ FsFresh
    /\ IoFresh
    /\ sts = NoSts
    /\ envs = NoEnv
    /\ addr = NoAddr
    /\ \E e \in Entries : mods = [NoMods EXCEPT !.entry = e]

ModNext ==
    \/ RunSplit
    \/ RunPrepTf
    \/ RunSpawn
    \/ RunWait
    \/ \E j \in Jobs : ModJobStep(j)
    \/ \E j \in Jobs : GetModulesRead(j)
    \/ \E j \in Jobs : GetModulesFetch(j)
    \/ \E j \in Jobs : GetModulesManifest(j)
    \/ \E j \in Jobs : RunTf(j)
    \/ \E j \in Jobs : Supervise(j)
    \/ \E j \in Jobs : JobDone(j)

ModSpec == ModInit /\ [][ModNext]_vars

\* UrlSpec: normalizedSource, normalizedSource of its result and readModules
\* for every address made of an optional scheme, an optional host, a path
\* of "/", "org" and "my mod", possibly ".git" and a path of "/", "m" and
\* ".git" after it, and no query, ?ref=v2 or ?depth=1&ref=v2&ref=v1.
Prefixes ==
    {<<>>, <<Http>>, <<Sep, Sep, Host>>, <<Http, Sep, Sep, Host>>,
     <<Https, Sep, Sep, Host>>}

Paths ==
    {a \o b :
       a \in Seqs({Sep, <<"txt", "org">>, <<"raw", "my mod">>}, MaxRepo),
       b \in {<<>>} \cup {<<DotGit>> \o c :
                            c \in Seqs({Sep, <<"txt", "m">>, DotGit}, MaxSub)}}

Queries ==
    {<<>>, <<Qm, <<"ref", "v2">>>>,
     <<Qm, <<"depth", "1">>, Amp, <<"ref", "v2">>, Amp, <<"ref", "v1">>>>}

Addresses == {p \o a \o q : p \in Prefixes, a \in Paths, q \in Queries}

UrlInit ==
    /\ orig = <<>>
    /\ cpus = MaxCpus
    /\ RunFresh
    /\ FsFresh
    /\ IoFresh
    /\ sts = NoSts
    /\ envs = NoEnv
    /\ mods = NoMods
    /\ \E s \in Addresses : addr = [NoAddr EXCEPT !.src = s]

UrlNext ==
    \/ UrlNormalize
    \/ UrlAgain
    \/ UrlModule

UrlSpec == UrlInit /\ [][UrlNext]_vars

\* SeqSpec: the chain of invocations of the sequential variant of Run.
SeqInit ==
    /\ orig \in Batches
    /\ cpus \in CpuCounts
    /\ Fresh

SeqNext ==
    \/ SeqRunEntry
    \/ SeqExecute
    \/ NextInvocation

SeqSpec == SeqInit /\ [][SeqNext]_vars

\* CredSpec: one invocation with a full batch, in which two requests may be
\* for the same account, each execute followed with its secrets.
CredBatches ==
    {[i \in Jobs |-> Request(f[i])] : f \in [Jobs -> Jobs]}

CredInit ==
    /\ orig \in CredBatches
    /\ cpus = MaxCpus
    /\ Fresh

CredNext ==
    \/ RunSplit
    \/ RunPrepTf
    \/ RunSpawn
    \/ RunWait
    \/ \E j \in Jobs : CredStep(j)
    \/ \E j \in Jobs : CredRunTf(j)
    \/ \E j \in Jobs : Supervise(j)
    \/ \E j \in Jobs : JobDone(j)

CredSpec == CredInit /\ [][CredNext]_vars

(***************************************************************************)
(* Properties of the dispatcher.                                           *)
(***************************************************************************)
\* Goroutine j has been started by Run.
Started(j) == job[j].pc # "idle"

\* Run has left its range loop and waits, or has returned from the wait.
PastLoop == runPc = "wait" \/ (runPc = "returned" /\ runRet = "nil")

\* Number of execute goroutines of this invocation started for batch[i].
LocalStarts(i) == IF i \in Jobs /\ Started(i) THEN 1 ELSE 0

\* C1: for a batch longer than the CPU count, what Run passes to dispatch is
\* the slice of the batch after the first C requests, in order, and that is
\* what is queued for the next invocation; the execute goroutines Run starts
\* are for the first C requests, one each and none for a later request, and
\* once the loop is done every one of the first C has its goroutine.
C1_SplitAtCpus ==
    Len(batch) > cpus =>
      /\ runPc # "entry" => payload = <<SubSeq(batch, cpus + 1, Len(batch))>>
      /\ handoff = "ok" =>
           /\ Len(queue) = 1
           /\ Len(queue[1]) = Len(batch) - cpus
           /\ \A i \in 1..Len(queue[1]) :
                /\ queue[1][i].id = batch[cpus + i].ID
                /\ queue[1][i].name = batch[cpus + i].Name
      /\ \A j \in Jobs : Started(j) => j <= cpus /\ job[j].req = batch[j]
      /\ \A i \in 1..Len(batch) :
           startedCnt[batch[i].ID] = IF i <= cpus THEN LocalStarts(i) ELSE 0
      /\ PastLoop => \A i \in 1..cpus : Started(i)

C1_Witness ==
    /\ Len(batch) > cpus
    /\ cpus >= 2
    /\ handoff = "ok"
    /\ runPc = "returned"
    /\ runRet = "nil"

\* C2: for a batch no longer than the CPU count, dispatch is never called
\* and nothing is queued, `end` never exceeds the length of the batch (the
\* slice expression does not panic), the goroutines started are for requests
\* of the batch, one each, and once the loop is done every request has one.
C2_AllLocal ==
    Len(batch) <= cpus =>
      /\ payload = <<>>
      /\ handoff = ""
      /\ queue = <<>>
      /\ runPc # "panic"
      /\ end <= Len(batch)
      /\ \A j \in Jobs : Started(j) => j <= Len(batch) /\ job[j].req = batch[j]
      /\ \A i \in 1..Len(batch) : startedCnt[batch[i].ID] = LocalStarts(i)
      /\ PastLoop => \A i \in 1..Len(batch) : Started(i)

C2_Witness ==
    /\ Len(batch) = cpus
    /\ cpus >= 2
    /\ runPc = "returned"
    /\ runRet = "nil"

\* C3: every payload queued for a new invocation is non-empty and shorter
\* than the batch of the invocation that queued it, so the batch lengths
\* along the chain decrease strictly; no request is started twice; a started
\* request is a request of the original batch; and when no hand-off and no
\* prepTf has failed and the chain has ended, every request of the original
\* batch has been started exactly once.
C3_ChainRunsEachOnce ==
    /\ \A i \in 1..Len(queue) : 0 < Len(queue[i]) /\ Len(queue[i]) < Len(batch)
    /\ Len(lens) = depth
    /\ lens[depth] = Len(batch)
    /\ \A i \in 1..(Len(lens) - 1) : 0 < lens[i + 1] /\ lens[i + 1] < lens[i]
    /\ \A i \in 1..MaxReq : startedCnt[i] <= 1
    /\ \A j \in Jobs : Started(j) => \E i \in 1..Len(orig) : job[j].req = orig[i]
    /\ (~failed /\ runPc = "returned" /\ queue = <<>>) =>
         \A i \in 1..MaxReq : startedCnt[i] = IF i <= Len(orig) THEN 1 ELSE 0

C3_Witness ==
    /\ ~failed
    /\ runPc = "returned"
    /\ queue = <<>>
    /\ depth >= 2
    /\ Len(orig) = MaxReq

\* C4: when dispatch returns an error (marshalling or Invoke), Run returns
\* that error and no execute goroutine is started in this invocation.
C4_HandoffFailureFatal ==
    handoff \notin {"", "ok"} =>
      /\ runPc = "returned"
      /\ runRet = handoff
      /\ runRet # "nil"
      /\ wg = 0
      /\ \A j \in Jobs : ~Started(j)
      /\ \A i \in 1..Len(batch) : startedCnt[batch[i].ID] = 0

C4_Witness ==
    /\ handoff = "failed to dispatch requests"
    /\ runPc = "returned"
    /\ depth >= 2

\* The errors execute can return from a step of its pipeline.
ErrorsOf(step) ==
    IF step \in PreSteps THEN {step}
    ELSE IF step \in {"init", "apply"} THEN {"failed to start process"}
    ELSE {"exit status 1"} \cup LateWaitErrors

\* Job j is where its own pipeline has brought it: the steps it completed are
\* the first steps of the pipeline, an error is one of the step it stopped
\* at, and without an error it ends only after the last step.
OwnOutcome(j) ==
    /\ \E n \in 0..Len(Pipeline) : job[j].steps = SubSeq(Pipeline, 1, n)
    /\ job[j].err # "" =>
         /\ job[j].pc \in {"ret", "done"}
         /\ Len(job[j].steps) < Len(Pipeline)
         /\ job[j].err \in ErrorsOf(Pipeline[Len(job[j].steps) + 1])
    /\ (job[j].pc \in {"ret", "done"} /\ job[j].err = "") =>
         job[j].steps = Pipeline

\* The step in which execute of job j returns an error.
Fails(j) == job[j].err = "" /\ job'[j].err # ""

\* C5: the step in which one job fails changes no other job and no command
\* of another job, and neither the wait group nor the position of Run; every
\* started job is at the place of its own pipeline, whatever happened to the
\* others; and Run returns from the wait only when every job has ended.
C5_FailureIsolated ==
    /\ [](\A j \in Jobs : Started(j) => OwnOutcome(j))
    /\ []((runPc = "returned" /\ runRet = "nil") =>
            \A j \in 1..end : job[j].pc = "done")
    /\ [][\A j \in Jobs : Fails(j) =>
            /\ \A k \in Jobs \ {j} : job'[k] = job[k] /\ cmd'[k] = cmd[k]
            /\ wg' = wg
            /\ runPc' = runPc]_vars

\* Of two jobs of one batch, one has failed at its first step and the other
\* has gone through its whole pipeline.
C5_Witness ==
    /\ runPc = "returned"
    /\ runRet = "nil"
    /\ job[1].err = "checkout"
    /\ job[2].pc = "done"
    /\ job[2].err = ""
    /\ job[2].steps = Pipeline

\* Number of goroutines that have called wg.Done().
DoneCount == Cardinality({j \in Jobs : job[j].pc = "done"})

\* C6: the counter of the wait group is the number of goroutines of the
\* batch that have not yet signalled (started or still to be started), each
\* goroutine signals once, and Run returns from wg.Wait() exactly when all
\* of them have: not before, and the wait is open once the last has ended.
C6_WaitsForAll ==
    /\ wg >= 0
    /\ runPc \in {"loop", "wait"} => wg = end - DoneCount
    /\ (runPc = "returned" /\ runRet = "nil") =>
         /\ wg = 0
         /\ \A j \in Jobs : job[j].pc = IF j <= end THEN "done" ELSE "idle"
    /\ (runPc = "wait" /\ \A j \in 1..end : job[j].pc = "done") => ENABLED RunWait

C6_Witness ==
    /\ runPc = "returned"
    /\ runRet = "nil"
    /\ end >= 2
    /\ \E j \in Jobs : job[j].err # ""
    /\ \E j \in Jobs : job[j].pc = "done" /\ job[j].err = ""

\* The failed jobs of this invocation, as the log names them.
FailedJobs == {j \in Jobs : job[j].pc = "done" /\ job[j].err # ""}

FailureLines == {l \in log : l[1] = "failed to execute"}

C8_Claimed ==
    (Len(batch) = 0 /\ runPc = "returned") => runRet = "nil"

(***************************************************************************)
(* Properties of execute, checked under ExecSpec.                          *)
(***************************************************************************)
StepsDone(j) == {job[j].steps[i] : i \in 1..Len(job[j].steps)}

\* The init subprocess of job j could not be started, or has exited with a
\* status other than 0.
InitFailed(j) ==
    \/ job[j].err = "failed to start process" /\ "init" \notin StepsDone(j)
    \/ cmd[j].init.proc \in {"exited", "reaped"} /\ cmd[j].init.code # 0

\* C9: when init could not be started or exited with a non-zero status, no
\* apply subprocess is ever started for the job, whichever of execute and
\* the goroutine of runTf gets to Wait first, and execute returns an error.
C9_NoApplyAfterFailedInit ==
    \A j \in Jobs : InitFailed(j) =>
      /\ cmd[j].apply.proc = "none"
      /\ job[j].pc \notin {"apply", "applyWait", "applyReap"}
      /\ StepsDone(j) \cap {"initWait", "apply", "applyWait"} = {}
      /\ job[j].pc \in {"ret", "done"} => job[j].err # ""

\* init exited with status 1, the goroutine of runTf collected it, and
\* execute's own Wait found the child gone.
C9_Witness ==
    /\ cmd[1].init.code = 1
    /\ cmd[1].init.g = "end"
    /\ job[1].pc = "done"
    /\ job[1].err = "wait: no child processes"
    /\ cmd[1].apply.proc = "none"

IsPrefix(s, t) == Len(s) <= Len(t) /\ s = SubSeq(t, 1, Len(s))

\* The steps named by the claim, in the order it gives them.
ClaimedOrder == <<"checkout", "assume", "backend", "modules", "env", "init", "apply">>

ClaimedSteps == {ClaimedOrder[i] : i \in 1..Len(ClaimedOrder)}

IsClaimedStep(s) == s \in ClaimedSteps

CodeOrder ==
    <<"checkout", "creds", "backend", "assume", "plugindir", "moddir",
      "modules", "env", "gitconfig", "init", "initWait", "apply", "applyWait">>

SuperviseAgrees ==
    \A j \in Jobs :
      /\ Started(j) => OwnOutcome(j)
      /\ "initWait" \in StepsDone(j) =>
           cmd[j].init.proc = "reaped" /\ cmd[j].init.code = 0
      /\ "applyWait" \in StepsDone(j) =>
           cmd[j].apply.proc = "reaped" /\ cmd[j].apply.code = 0
      /\ (job[j].err = "exit status 1" /\ Len(job[j].steps) = 10) =>
           cmd[j].init.code = 1
      /\ (job[j].err = "exit status 1" /\ Len(job[j].steps) = 12) =>
           cmd[j].apply.code = 1

(***************************************************************************)
(* Properties of the working trees.                                        *)
(***************************************************************************)
\* The working tree of job j.
TreeOf(j) == WorkPath(batch[j].Name)

\* Job j has handed its directories to the tool's environment.
HasEnv(j) == dirs[j].home # <<>>

\* C11: the plugin cache and the module cache a job hands to the tool lie
\* under the job's own working tree, and two jobs with distinct names never
\* have the same cache directory, the value of TF_PLUGIN_CACHE_DIR included.
C11_Claimed ==
    \A j \in Jobs :
      HasEnv(j) =>
        /\ Within(TreeOf(j), dirs[j].cache)
        /\ Within(TreeOf(j), dirs[j].mod)
        /\ \A k \in Jobs \ {j} :
             HasEnv(k) =>
               /\ dirs[j].cache # dirs[k].cache
               /\ dirs[j].mod # dirs[k].mod

\* C12: in a batch of pairwise distinct names no job removes or writes a
\* path that is the tool binary or lies in the working tree of another job
\* of the batch.
C12_Claimed ==
    \A t \in touched :
      /\ t[2] # ToolPath
      /\ \A k \in Jobs \ {t[1]} : ~Within(TreeOf(k), t[2])

(***************************************************************************)
(* Properties of the output of the subprocesses.                           *)
(***************************************************************************)
\* The line a whole line n of job j on stream s makes in the output.
Whole(j, s, n, late) ==
    [name |-> batch[j].Name, stream |-> s, text |-> Line(j, n), late |-> late]

\* C13: when execute's wait on a subprocess step has returned, both
\* line-readers of that subprocess have drained their stream to its end,
\* every line the subprocess wrote has been emitted, and no line is emitted
\* after the step is over.
C13_Claimed ==
    /\ \A j \in Jobs :
         StepOver(j) =>
           \A s \in Streams :
             /\ scan[j][s].st = "eof"
             /\ scan[j][s].tok = <<>>
             /\ \A n \in 1..sent[j][s] : Whole(j, s, n, FALSE) \in emitted
    /\ \A e \in emitted : ~e.late

\* C14: every emitted line is one whole line of the subprocess of one job,
\* under the name of that job.
C14_Claimed ==
    \A e \in emitted :
      \E j \in Jobs :
        /\ e.name = batch[j].Name
        /\ \E n \in 1..sent[j][e.stream] : e.text = Line(j, n)

(***************************************************************************)
(* Properties of the environment.                                          *)
(***************************************************************************)
\* C15: for a request decoded from JSON, a variable whose value is an
\* integer gives the entry key=<integer> in base 10 without a decimal point,
\* and a boolean gives key=true or key=false.
C15_Claimed ==
    envs.pc = "env" =>
      \A k \in DOMAIN envs.wire :
        /\ (envs.wire[k].kind = "number" /\ envs.wire[k].frac = <<>>) =>
             \E e \in envs.env :
               /\ e.key = k
               /\ e.text.int = envs.wire[k].int
               /\ ~e.text.point
        /\ envs.wire[k].kind = "bool" =>
             \E e \in envs.env :
               /\ e.key = k
               /\ e.text.kind = "%t"
               /\ e.text.b = envs.wire[k].b

(***************************************************************************)
(* Properties of the module resolution.                                    *)
(***************************************************************************)
\* The tool has been started for job j.
ToolStarted(j) == cmd[j].init.proc # "none" \/ cmd[j].apply.proc # "none"

\* Job j has left getModules with the error getModules returned.
Returned(j, e) == job[j].pc \in {"ret", "done"} /\ job[j].err = e

\* C16: when the entry file has no module declaration, the resolution ends
\* with an error, which is what the job ends with; no module is checked out,
\* no manifest is written and the tool is not started.
C16_NoModuleNoFetch ==
    mods.entry = <<>> =>
      /\ mods.fetched = <<>>
      /\ mods.manifest = <<>>
      /\ \A j \in Jobs : ~ToolStarted(j) /\ "modules" \notin StepsDone(j)
      /\ mods.pc = "done" => mods.err # "" /\ Returned(1, mods.err)

C16_Witness ==
    /\ mods.entry = <<>>
    /\ mods.err = "failed to find a module"
    /\ job[1].pc = "done"
    /\ runPc = "returned"

\* C17: a failed checkout is the last one of the resolution and its error is
\* what getModules and the job end with; after an error of the resolution
\* there is no manifest and the tool is not started; and when there is a
\* manifest every module has been checked out, in order, without an error.
C17_AllOrNothing ==
    /\ \A i \in 1..Len(mods.fetched) :
         mods.fetched[i].err # "" =>
           /\ i = Len(mods.fetched)
           /\ mods.pc = "done"
           /\ mods.err = mods.fetched[i].err
    /\ mods.err # "" =>
         /\ mods.manifest = <<>>
         /\ Returned(1, mods.err)
         /\ \A j \in Jobs : ~ToolStarted(j)
    /\ mods.manifest # <<>> =>
         /\ Len(mods.fetched) = Len(mods.modules)
         /\ \A i \in 1..Len(mods.fetched) :
              /\ mods.fetched[i].err = ""
              /\ mods.fetched[i].url = normalizedSource(mods.modules[i].Source).url
    /\ \A j \in Jobs : ToolStarted(j) => mods.manifest # <<>>

C17_Witness ==
    /\ mods.fetched # <<>>
    /\ mods.fetched[Len(mods.fetched)].err # ""
    /\ Len(mods.fetched) < Len(mods.modules)
    /\ job[1].pc = "done"

\* C18: the modules of a resolution, and those of the manifest, never hold
\* two with the same Key.
C18_Claimed ==
    /\ \A i, k \in 1..Len(mods.modules) :
         i # k => mods.modules[i].Key # mods.modules[k].Key
    /\ mods.manifest # <<>> =>
         \A i, k \in 1..Len(mods.manifest[1]) :
           i # k => mods.manifest[1][i].Key # mods.manifest[1][k].Key

\* C19: normalizedSource applied to the address it has returned for an
\* address it accepts returns that address again, and no revision.
C19_Claimed ==
    addr.again # NoResult =>
      /\ addr.again.err = ""
      /\ addr.again.url = addr.norm.url
      /\ addr.again.ref = ""

\* The address s is <scheme>://example.com/<path>.git<sub-path>?<query>
\* with a sub-path that is not empty and a query that has a ref, and nothing
\* in it needs percent-encoding.
IsGitAddress(s) ==
    /\ Len(s) >= 5
    /\ s[1][1] = "scheme" /\ s[2] = Sep /\ s[3] = Sep /\ s[4] = Host /\ s[5] = Sep
    /\ IndexIn(s, DotGit) > 0
    /\ IndexIn(s, Qm) > 0
    /\ \E i \in (IndexIn(s, DotGit) + 1)..(IndexIn(s, Qm) - 1) : s[i] # Sep
    /\ \E i \in (IndexIn(s, Qm) + 1)..Len(s) : s[i][1] = "ref"
    /\ \A i \in 1..Len(s) : s[i][1] # "raw"

\* What follows the first ".git" of such an address, up to the query.
SubPath(s) == SubSeq(s, IndexIn(s, DotGit) + 1, IndexIn(s, Qm) - 1)

NotSep(a) == a # Sep

RECURSIVE Concat(_)
Concat(ss) == IF ss = <<>> THEN <<>> ELSE Head(ss) \o Concat(Tail(ss))

\* C20: for such an address the normalized address is https and what the
\* address has between its scheme and its first ".git", the revision is the
\* value of the first ref of the query, the root checkout path is
\* .terraform/modules/<key> and the checkout path is the root followed by
\* the elements of the sub-path, none of them empty.
C20_GitAddress ==
    IsGitAddress(addr.src) =>
      /\ addr.norm # NoResult =>
           /\ addr.norm.err = ""
           /\ addr.norm.url =
                <<Https>> \o SubSeq(addr.src, 2, IndexIn(addr.src, DotGit) - 1)
           /\ \E i \in (IndexIn(addr.src, Qm) + 1)..Len(addr.src) :
                /\ addr.src[i][1] = "ref"
                /\ \A k \in (IndexIn(addr.src, Qm) + 1)..(i - 1) :
                     addr.src[k][1] # "ref"
                /\ addr.norm.ref = addr.src[i][2]
      /\ addr.desc # NoModule =>
           LET root == <<Elem(".terraform"), Elem("modules"), Elem("k")>>
               sub == SubPath(addr.src)
               rest == SubSeq(addr.desc.Dir, 4, Len(addr.desc.Dir))
           IN /\ addr.desc.RootDir = root
              /\ SubSeq(addr.desc.Dir, 1, 3) = root
              /\ \A i \in 1..Len(rest) :
                   rest[i] # <<>> /\ \A k \in 1..Len(rest[i]) : rest[i][k] # Sep
              /\ Concat(rest) = SelectSeq(sub, NotSep)
              /\ Len(rest) = Cardinality({i \in 1..Len(sub) :
                                            /\ sub[i] # Sep
                                            /\ i = 1 \/ sub[i - 1] = Sep})

\* https://example.com/org.git//m?ref=v2, normalized and read.
C20_Witness ==
    /\ addr.src = <<Https, Sep, Sep, Host, Sep, <<"txt", "org">>, DotGit, Sep,
                    Sep, <<"txt", "m">>, Qm, <<"ref", "v2">>>>
    /\ addr.norm.url = <<Https, Sep, Sep, Host, Sep, <<"txt", "org">>>>
    /\ addr.norm.ref = "v2"
    /\ addr.desc.Dir = <<Elem(".terraform"), Elem("modules"), Elem("k"), Elem("m")>>

\* C21 as claimed: every module is checked out from its normalized address,
\* at its revision, into the Dir the manifest records for it.
C21_Claimed ==
    \A i \in 1..Len(mods.fetched) :
      /\ mods.fetched[i].url = normalizedSource(mods.modules[i].Source).url
      /\ mods.fetched[i].ref = normalizedSource(mods.modules[i].Source).ref
      /\ mods.fetched[i].dest = mods.modules[i].Dir

\* C21: every module is checked out from its normalized address, at its
\* revision, into .terraform/modules/<key>, its root checkout path; the Dir
\* the manifest records is that directory or one beneath it.
C21_FetchIntoRoot ==
    /\ \A i \in 1..Len(mods.fetched) :
         /\ mods.fetched[i].url = normalizedSource(mods.modules[i].Source).url
         /\ mods.fetched[i].ref = normalizedSource(mods.modules[i].Source).ref
         /\ mods.fetched[i].dest = mods.modules[i].RootDir
         /\ mods.fetched[i].dest =
              <<Elem(".terraform"), Elem("modules"), Elem(mods.modules[i].Key)>>
    /\ mods.manifest # <<>> =>
         \A i \in 1..Len(mods.manifest[1]) :
           /\ mods.manifest[1][i].Dir = mods.modules[i].Dir
           /\ Within(mods.fetched[i].dest, mods.manifest[1][i].Dir)

\* A module with a sub-directory after ".git" has been checked out and is in
\* the manifest.
C21_Witness ==
    /\ mods.manifest # <<>>
    /\ \E i \in 1..Len(mods.fetched) :
         /\ mods.fetched[i].ref = "v2"
         /\ mods.fetched[i].dest # mods.manifest[1][i].Dir

(***************************************************************************)
(* Further properties of one invocation.                                   *)
(***************************************************************************)
\* The jobs of the invocation that have started and not yet signalled.
Running == {j \in Jobs : job[j].pc \notin {"idle", "done"}}

\* C22: in every state of an invocation the jobs that have started and not
\* yet finished are at most as many as the host has CPUs, and so are the
\* jobs started at all, whatever the length of the batch.
C22_AtMostCpus ==
    /\ Cardinality(Running) <= cpus
    /\ Cardinality({j \in Jobs : Started(j)}) <= cpus
    /\ Cardinality({j \in Jobs : Started(j)}) <= Len(batch)

\* A batch longer than the CPU count, and as many jobs running at once as
\* there are CPUs.
C22_Witness ==
    /\ Len(batch) > cpus
    /\ cpus = MaxCpus
    /\ Cardinality(Running) = cpus
    /\ \A j \in Running : job[j].pc \in {"initWait", "applyWait"}

\* The secret x is a credential AssumeRole has issued.
Scoped(x) == x[1] = "sts"

\* C23: a credential issued by AssumeRole is in no file the invocation has
\* written; in the environment of a job and of its init and apply there is
\* no credential issued to another job; and the environment of a started
\* init or apply holds the credential the job was issued.
C23_CredentialConfined ==
    /\ \A f \in sts.content : ~Scoped(f[2])
    /\ \A j \in Jobs :
         \A x \in sts.env[j] \cup sts.procEnv[j].init \cup sts.procEnv[j].apply :
           Scoped(x) => x[2] \in 1..Len(sts.issued) /\ sts.issued[x[2]] = j
    /\ \A j \in Jobs :
         \A k \in {"init", "apply"} :
           cmd[j][k].proc # "none" =>
             /\ sts.held[j] # <<>>
             /\ sts.procEnv[j][k] = {<<"sts", sts.held[j][1]>>}
    /\ \A j, k \in Jobs :
         j # k /\ sts.held[j] # <<>> /\ sts.held[k] # <<>> =>
           sts.held[j] # sts.held[k]

\* Two jobs for the same account whose apply runs at the same time, job 1
\* with the credential issued second and job 2 with the one issued first.
C23_Witness ==
    /\ batch[1].ID = batch[2].ID
    /\ cmd[1].apply.proc = "running"
    /\ cmd[2].apply.proc = "running"
    /\ sts.procEnv[1].apply = {<<"sts", 2>>}
    /\ sts.procEnv[2].apply = {<<"sts", 1>>}
    /\ <<Join(WorkPath(batch[1].Name), <<"backend.tf">>), <<"session">>>>
         \in sts.content

\* C24 as claimed: in the sequential variant, an invocation that has handed
\* the tail of a batch longer than the CPU count to the next invocation has
\* executed the first request of the batch; and for a batch shorter than
\* the CPU count the loop ends at the length of the batch and Run does not
\* panic.
C24_Claimed ==
    /\ (runPc = "returned" /\ Len(batch) > cpus /\ handoff = "ok") =>
         job[1].pc = "done" /\ job[1].req = batch[1]
    /\ Len(batch) < cpus =>
         /\ runPc # "panic"
         /\ runPc = "loop" => end = Len(batch)

\* C25 as claimed: when Run has handed the overflow of a batch to the next
\* invocation and has returned, a job has been started for every request of
\* the head of the batch.
C25_Claimed ==
    (handoff = "ok" /\ runPc = "returned") =>
      \A i \in 1..cpus : Started(i) /\ job[i].req = batch[i]

\* The command c has exited with status 0.
ExitedOk(c) == c.proc \in {"exited", "reaped"} /\ c.code = 0

\* C26 as claimed: when execute has returned and init had exited with
\* status 0, execute's Wait for init had reported success and execute had
\* gone on to start apply; and when apply had exited with status 0 execute
\* has returned nil.
C26_Claimed ==
    \A j \in 1..ExecJobs :
      job[j].pc \in {"ret", "done"} =>
        /\ ExitedOk(cmd[j].init) => "initWait" \in StepsDone(j)
        /\ ExitedOk(cmd[j].apply) => job[j].err = ""

\* C27 as claimed: the job eventually finishes, also after a line that is
\* too long for the scanner.
C27_Claimed == <>(job[1].pc = "done")

\* C28 as claimed: for a request decoded from JSON, getEnv returns as many
\* entries as the request has variables, and every variable is the key of
\* one of them.
C28_Claimed ==
    envs.pc = "env" =>
      /\ Cardinality(envs.env) = Cardinality(DOMAIN envs.wire)
      /\ \A k \in DOMAIN envs.wire : \E e \in envs.env : e.key = k

====
